---- MODULE Spec2Model ----
(***************************************************************************)
(* numpy/core/src/multiarray/array_assign_array.c                          *)
(*                                                                         *)
(* PyArray_AssignArray and the three raw transfer loops                    *)
(* (raw_array_assign_array, raw_array_wheremasked_assign_array,            *)
(* raw_array_wheremasked_assign_array_preservena) as a state machine over  *)
(* a flat memory.  Addresses and strides count elements (every item size   *)
(* is one cell).  A call is a stack of frames: the frame of                *)
(* PyArray_AssignArray, on top of it the frame of the raw loop it called   *)
(* or of the recursive PyArray_AssignArray that fills the temporary copy.  *)
(***************************************************************************)
EXTENDS Integers, Sequences, FiniteSets, TLC

VARIABLES heap, heap0, arr, args, stk, res, pyerr, result, written, fuel

vars == <<heap, heap0, arr, args, stk, res, pyerr, result, written, fuel>>

(***************************************************************************)
(* Bounds of the model.                                                    *)
(***************************************************************************)
\* cells of every memory region (an array buffer, its NA mask, ...)
BufLen == 5
\* longest 1-D view enumerated
MaxLen == 3
\* external failures (allocation, resolver, callable) injected per call
MaxFaults == 1
\* NPY_ARRAY_ASSIGN_BUFFERSIZE of array_assign.h, scaled down so that the
\* enumerated runs are split into several chunks
NPY_ARRAY_ASSIGN_BUFFERSIZE == 2
\* a narrowing cast keeps the value modulo NarrowMod
NarrowMod == 4

(***************************************************************************)
(* Memory layout: eight regions of BufLen cells.                           *)
(***************************************************************************)
RegionNames == <<"A", "Ana", "B", "Bna", "W", "Wna", "T", "Tna">>

RegionIndex(r) == CHOOSE i \in 1..Len(RegionNames) : RegionNames[i] = r

RegionBase(r) == (RegionIndex(r) - 1) * BufLen

HeapSize == Len(RegionNames) * BufLen

Addrs == 0..(HeapSize - 1)

RegionOf(a) == RegionNames[(a \div BufLen) + 1]

\* indeterminate values: uninitialised memory, reads outside every buffer
GarbageVals == {0, 9}

\* strides read beyond the end of a strides array
GarbageStrides == {0, 1}

Abs(x) == IF x < 0 THEN -x ELSE x

Min2(a, b) == IF a < b THEN a ELSE b

RECURSIVE SeqSum(_)
SeqSum(s) == IF Len(s) = 0 THEN 0 ELSE Head(s) + SeqSum(Tail(s))

RECURSIVE SeqProd(_)
SeqProd(s) == IF Len(s) = 0 THEN 1 ELSE Head(s) * SeqProd(Tail(s))

\* all multi-indices (0-based) of a shape
RECURSIVE Idx(_)
Idx(dims) ==
  IF Len(dims) = 0 THEN {<<>>}
  ELSE {<<i>> \o r : i \in 0..(Head(dims) - 1), r \in Idx(Tail(dims))}

Dot(idx, strides) == SeqSum([k \in 1..Len(idx) |-> idx[k] * strides[k]])

(***************************************************************************)
(* Array views (PyArrayObject).  descr is the identity of the dtype        *)
(* object; Kind(descr) its type.  "wide2" is a second dtype object of the  *)
(* same type as "wide"; "obj" is a dtype whose transfers need the API;     *)
(* "mask" and "bool" are the dtypes of NA masks and of where-masks.        *)
(***************************************************************************)
Kind(descr) == IF descr = "wide2" THEN "wide" ELSE descr

NaRegion(r) == CASE r = "A" -> "Ana" [] r = "B" -> "Bna" [] r = "W" -> "Wna"
                 [] r = "T" -> "Tna"

NoArray ==
  [nd |-> -1, dims |-> <<>>, strides |-> <<>>, data |-> 0, hasna |-> FALSE,
   nadata |-> -1, nastrides |-> <<>>, descr |-> "none", writeable |-> FALSE]

\* a view of the buffer in region r; its NA mask, when it has one, is the
\* same view of the region NaRegion(r)
View(r, off, dims, strides, hasna, descr, wr) ==
  [nd |-> Len(dims), dims |-> dims, strides |-> strides,
   data |-> RegionBase(r) + off, hasna |-> hasna,
   nadata |-> IF hasna THEN RegionBase(NaRegion(r)) + off ELSE -1,
   nastrides |-> IF hasna THEN strides ELSE <<>>,
   descr |-> descr, writeable |-> wr]

PyArray_NDIM(a) == a.nd

PyArray_HASMASKNA(a) == a.hasna

\* address of the element (payload) and of its NA flag at a multi-index
ElemAddr(a, idx) == a.data + Dot(idx, a.strides)

NaAddr(a, idx) == a.nadata + Dot(idx, a.nastrides)

Footprint(a) == {ElemAddr(a, idx) : idx \in Idx(a.dims)}

NaFootprint(a) == IF a.hasna THEN {NaAddr(a, idx) : idx \in Idx(a.dims)} ELSE {}

\* lowest and highest address of a view
LowAddr(a) == a.data + SeqSum([k \in 1..a.nd |->
                 IF a.strides[k] < 0 THEN (a.dims[k] - 1) * a.strides[k] ELSE 0])

HighAddr(a) == a.data + SeqSum([k \in 1..a.nd |->
                 IF a.strides[k] > 0 THEN (a.dims[k] - 1) * a.strides[k] ELSE 0])

\* a read of memory; outside every buffer the value is indeterminate (g)
Read(h, a, g) == IF a \in DOMAIN h THEN h[a] ELSE g

\* NpyMaskValue_IsExposed: bit 0 of the mask byte
Exposed(m) == (m % 2) = 1

(***************************************************************************)
(* Collaborators of array_assign_array.c that live in other files.         *)
(***************************************************************************)
\* PyArray_CanCastTypeTo: the casting gate
PyArray_CanCastTypeTo(from, to, casting) ==
  \/ casting = "unsafe"
  \/ Kind(from) = Kind(to)
  \/ Kind(from) = "narrow" /\ Kind(to) = "wide"

\* what the resolved cast does to one value
Cast(v, from, to) ==
  IF Kind(to) = "narrow" /\ Kind(from) # "narrow" THEN v % NarrowMod ELSE v

NeedsApi(descr) == Kind(descr) = "obj"

\* broadcast_strides: strides of a (strides_ndim)-dimensional array viewed
\* with the shape `shape`; ok is FALSE when it cannot be broadcast
broadcast_strides(ndim, shape, strides_ndim, strides_shape, strides) ==
  LET idim_start == ndim - strides_ndim
      bad == \/ idim_start < 0
             \/ \E idim \in 1..ndim :
                   /\ idim > idim_start
                   /\ strides_shape[idim - idim_start] # 1
                   /\ strides_shape[idim - idim_start] # shape[idim]
  IN  IF bad THEN [ok |-> FALSE, strides |-> <<>>]
      ELSE [ok |-> TRUE,
            strides |-> [idim \in 1..ndim |->
               IF idim <= idim_start THEN 0
               ELSE IF strides_shape[idim - idim_start] = 1 THEN 0
               ELSE strides[idim - idim_start]]]

\* arrays_overlap: the memory extents of the two arrays intersect
arrays_overlap(a, b) == LowAddr(a) <= HighAddr(b) /\ LowAddr(b) <= HighAddr(a)

\* PyArray_CompareLists
PyArray_CompareLists(l1, l2, n) == \A k \in 1..n : l1[k] = l2[k]

Perms(n) == {p \in [1..n -> 1..n] : \A i, j \in 1..n : p[i] = p[j] => i = j}

\* PyArray_CreateSortedStridePerm read from the innermost axis outwards:
\* axes by ascending |stride| of the first operand, C order among equals
SortedAxes(ndim, stridesA) ==
  CHOOSE p \in Perms(ndim) : \A i, j \in 1..ndim : i < j =>
     \/ Abs(stridesA[p[i]]) < Abs(stridesA[p[j]])
     \/ Abs(stridesA[p[i]]) = Abs(stridesA[p[j]]) /\ p[i] > p[j]

\* the coalescing loop of PyArray_Prepare*RawArrayIter, axis j onto axis i
RECURSIVE Coalesce(_, _, _, _)
Coalesce(shape, strs, i, j) ==
  IF j > Len(shape) THEN [ndim |-> i, shape |-> shape, strs |-> strs]
  ELSE IF shape[i] = 1 THEN
    Coalesce([shape EXCEPT ![i] = shape[j]],
             [o \in DOMAIN strs |-> [strs[o] EXCEPT ![i] = strs[o][j]]], i, j + 1)
  ELSE IF shape[j] = 1 THEN Coalesce(shape, strs, i, j + 1)
  ELSE IF \A o \in DOMAIN strs : strs[o][i] * shape[i] = strs[o][j] THEN
    Coalesce([shape EXCEPT ![i] = shape[i] * shape[j]], strs, i, j + 1)
  ELSE
    Coalesce([shape EXCEPT ![i + 1] = shape[j]],
             [o \in DOMAIN strs |-> [strs[o] EXCEPT ![i + 1] = strs[o][j]]],
             i + 1, j + 1)

\* PyArray_PrepareTwo/Three/FourRawArrayIter: the operands (datas[o],
\* strs[o]), the destination first, brought to the canonical iteration:
\* axes sorted by the destination's strides (innermost first), negative
\* destination strides reversed, axes coalesced where every operand allows
PrepareRawArrayIter(ndim, shape, datas, strs) ==
  IF ndim = 0 THEN
    [ndim |-> 1, shape |-> <<1>>, datas |-> datas,
     strs |-> [o \in DOMAIN strs |-> <<0>>]]
  ELSE
    LET p == SortedAxes(ndim, strs[1])
        shp == SubSeq([i \in 1..ndim |-> shape[p[i]]], 1, ndim)
        st0 == [o \in DOMAIN strs |-> [i \in 1..ndim |-> strs[o][p[i]]]]
        neg == {i \in 1..ndim : st0[1][i] < 0}
        dat == [o \in DOMAIN datas |->
                  datas[o] + SeqSum([i \in 1..ndim |->
                     IF i \in neg THEN st0[o][i] * (shp[i] - 1) ELSE 0])]
        st1 == [o \in DOMAIN strs |->
                  SubSeq([i \in 1..ndim |->
                            IF i \in neg THEN -st0[o][i] ELSE st0[o][i]],
                         1, ndim)]
    IN  IF \E i \in 1..ndim : shp[i] = 0 THEN
          [ndim |-> 1, shape |-> <<0>>, datas |-> dat,
           strs |-> [o \in DOMAIN strs |-> <<0>>]]
        ELSE
          LET c == Coalesce(shp, st1, 1, 2)
          IN  [ndim |-> c.ndim, shape |-> SubSeq(c.shape, 1, c.ndim),
               datas |-> dat,
               strs |-> [o \in DOMAIN strs |-> SubSeq(c.strs[o], 1, c.ndim)]]

\* The strided transfer callable of PyArray_Get(Masked)DTypeTransferFunction:
\* elements 0..n-1 in order, each cast and stored; under a mask (t.mk =
\* "heap": mask cells in memory, "buf": the scratch buffer) only where the
\* mask value is exposed.  Returns the memory and the addresses written.
RECURSIVE Run(_, _, _, _)
Run(h, t, i, wr) ==
  IF i >= t.n THEN [h |-> h, wr |-> wr]
  ELSE
    LET sel == CASE t.mk = "none" -> TRUE
                 [] t.mk = "heap" -> Exposed(Read(h, t.m + i * t.ms, t.g))
                 [] t.mk = "buf" -> Exposed(t.buf[i + 1])
        da == t.d + i * t.ds
        v == Cast(Read(h, t.s + i * t.ss, t.g), t.sdt, t.ddt)
    IN  IF sel THEN Run([h EXCEPT ![da] = v], t, i + 1, wr \cup {da})
        ELSE Run(h, t, i + 1, wr)

stransfer(h, t) == Run(h, t, 0, {})

\* The binary callable of PyArray_GetMaskAndFunction (no inversion): the
\* AND of two strided mask runs, stored contiguously
maskand_stransfer(h, m0, ms0, m1, ms1, n, g) ==
  [i \in 1..n |->
     IF Exposed(Read(h, m0 + (i - 1) * ms0, g))
        /\ Exposed(Read(h, m1 + (i - 1) * ms1, g)) THEN 1 ELSE 0]

(***************************************************************************)
(* Frames, resources, return.                                              *)
(***************************************************************************)
Top == stk[Len(stk)]

At(fn, pc) == stk # <<>> /\ Top.fn = fn /\ Top.pc = pc

SetTop(f) == [stk EXCEPT ![Len(stk)] = f]

Goto(pc) == stk' = SetTop([Top EXCEPT !.pc = pc])

ResKinds == {"tmp", "maskna_buffer", "transferdata", "maskand_transferdata"}

NoRes == [held |-> [k \in ResKinds |-> 0], acq |-> [k \in ResKinds |-> 0],
          rel |-> [k \in ResKinds |-> 0], dbl |-> FALSE]

Acquire(r, k) == [r EXCEPT !.held[k] = @ + 1, !.acq[k] = @ + 1]

\* PyArray_free / NPY_AUXDATA_FREE / Py_DECREF of the last reference
Release(r, k) ==
  IF r.held[k] > 0 THEN [r EXCEPT !.held[k] = @ - 1, !.rel[k] = @ + 1]
  ELSE [r EXCEPT !.dbl = TRUE, !.rel[k] = @ + 1]

PyErr_Occurred == pyerr # "none"

\* the pc at which a caller goes on after the call it made at `pc`
SiteNext(pc) ==
  CASE pc = "L585" -> "L597" [] pc = "L597" -> "finish"
    [] pc = "L612" -> "L620" [] pc = "L620" -> "finish"
    [] pc = "L630" -> "L649" [] pc = "L649" -> "finish"
    [] pc = "L702" -> "L720" [] pc = "L720" -> "finish"
    [] pc = "L738" -> "L746" [] pc = "L746" -> "finish"
    [] pc = "L762" -> "L785" [] pc = "L785" -> "finish"

\* `if (callee(...) < 0) goto fail;` in the caller c
AfterCall(c, rc) ==
  IF c.pc = "copy" THEN [c EXCEPT !.pc = "copyret", !.rc = rc]
  ELSE [c EXCEPT !.pc = IF rc < 0 THEN "fail" ELSE SiteNext(c.pc), !.rc = rc]

\* return rc from the top frame
Return(rc) ==
  IF Len(stk) = 1
  THEN /\ stk' = <<>>
       /\ result' = IF rc < 0 THEN "failure" ELSE "success"
  ELSE /\ stk' = Append(SubSeq(stk, 1, Len(stk) - 2),
                        AfterCall(stk[Len(stk) - 1], rc))
       /\ UNCHANGED result

AssignFrame(dst, src, wm, casting, preservena, pwna, dsthas, srchas) ==
  [fn |-> "assign", pc |-> "entry", dst |-> dst, src |-> src, wm |-> wm,
   casting |-> casting, preservena |-> preservena, pwna |-> pwna,
   dst_has_maskna |-> dsthas, src_has_maskna |-> srchas,
   copied_src |-> FALSE, src_strides |-> <<>>, src_maskna_strides |-> <<>>,
   wheremask_strides |-> <<>>, rc |-> 0]

(***************************************************************************)
(* Reading arrays under broadcasting.                                      *)
(***************************************************************************)
\* shape d padded on the left with ones to n axes
PadShape(d, n) == [k \in 1..n |-> IF k <= n - Len(d) THEN 1 ELSE d[k - (n - Len(d))]]

MaxNd(a, b) == IF a > b THEN a ELSE b

Broadcastable(d1, d2) ==
  LET n == MaxNd(Len(d1), Len(d2)) IN
  \A k \in 1..n : \/ PadShape(d1, n)[k] = PadShape(d2, n)[k]
                  \/ PadShape(d1, n)[k] = 1 \/ PadShape(d2, n)[k] = 1

BroadcastShape(d1, d2) ==
  LET n == MaxNd(Len(d1), Len(d2)) IN
  [k \in 1..n |-> IF PadShape(d1, n)[k] = 1 THEN PadShape(d2, n)[k]
                  ELSE PadShape(d1, n)[k]]

\* strides of a viewed with the (broadcast) shape
BStrides(shape, dims, strides) ==
  broadcast_strides(Len(shape), shape, Len(dims), dims, strides).strides

\* PyArray_ContainsNA(a, wheremask, NULL): 1 when an element of a is NA at a
\* position the where-mask selects (every position without one), 0 when
\* none is, -1 when the two cannot be iterated together
PyArray_ContainsNA(h, a, wm) ==
  IF ~a.hasna THEN 0
  ELSE IF wm.nd < 0 THEN
    IF \E idx \in Idx(a.dims) : ~Exposed(h[NaAddr(a, idx)]) THEN 1 ELSE 0
  ELSE IF ~Broadcastable(a.dims, wm.dims) THEN -1
  ELSE
    LET shp == BroadcastShape(a.dims, wm.dims)
        nas == BStrides(shp, a.dims, a.nastrides)
        wms == BStrides(shp, wm.dims, wm.strides)
    IN  IF \E idx \in Idx(shp) : /\ ~Exposed(h[a.nadata + Dot(idx, nas)])
                                 /\ h[wm.data + Dot(idx, wms)] # 0
        THEN 1 ELSE 0

(***************************************************************************)
(* PyArray_AssignArray, one action per step.  In every action f is the     *)
(* executing frame, dst/src/wm the arrays it names (wm is NoArray when the *)
(* where-mask is NULL).                                                    *)
(***************************************************************************)
\* C-contiguous strides of a shape
CStrides(dims) == [k \in 1..Len(dims) |-> SeqProd(SubSeq(dims, k + 1, Len(dims)))]

\* number of unit dimensions stripped from the left of src (lines 547-551)
RECURSIVE StripUnitDims(_, _, _)
StripUnitDims(dims, ndim_tmp, ndim_dst) ==
  IF ndim_tmp > ndim_dst /\ dims[Len(dims) - ndim_tmp + 1] = 1
  THEN StripUnitDims(dims, ndim_tmp - 1, ndim_dst)
  ELSE Len(dims) - ndim_tmp

\* the first ndim entries of a strides array as the raw loops read them;
\* entries beyond its end are indeterminate (g)
StridesRead(strides, ndim, g) ==
  [k \in 1..ndim |-> IF k <= Len(strides) THEN strides[k] ELSE g]

\* lines 438-447: the redundant-copy test
RedundantCopy(src, dst) ==
  /\ src.data = dst.data
  /\ src.nadata = dst.nadata
  /\ src.descr = dst.descr
  /\ src.nd = dst.nd
  /\ PyArray_CompareLists(src.dims, dst.dims, src.nd)
  /\ PyArray_CompareLists(src.strides, dst.strides, src.nd)

\* the temporary made only for 1-D destinations of opposite direction
NeedsTemporary_Only1D(src, dst) ==
  /\ dst.nd = 1
  /\ src.nd >= 1
  /\ dst.strides[1] * src.strides[src.nd] < 0
  /\ arrays_overlap(src, dst)

\* lines 505-508: when a temporary copy of src is made
NeedsTemporary(src, dst) ==
  /\ \/ /\ dst.nd = 1
        /\ src.nd >= 1
        /\ dst.strides[1] * src.strides[src.nd] < 0
     \/ dst.nd > 1
  /\ arrays_overlap(src, dst)

\* lines 399-417
AA_ScalarDispatch ==
  /\ At("assign", "entry")
  /\ LET f == Top
         src == arr[f.src]
     IN  IF PyArray_NDIM(src) = 0
         THEN IF PyArray_HASMASKNA(src) /\ ~Exposed(heap[src.nadata])
              THEN Goto("AssignNA")
              ELSE Goto("AssignRawScalar")
         ELSE Goto("redundant")
  /\ UNCHANGED <<heap, heap0, args, arr, res, pyerr, result, written, fuel>>

\* lines 438-450
AA_RedundantCopy ==
  /\ At("assign", "redundant")
  /\ IF RedundantCopy(arr[Top.src], arr[Top.dst])
     THEN Return(0)
     ELSE Goto("writeable") /\ UNCHANGED result
  /\ UNCHANGED <<heap, heap0, args, arr, res, pyerr, written, fuel>>

\* the writability check left out: the call goes on to the casting check
AA_CheckWriteable_Skipped ==
  /\ At("assign", "writeable")
  /\ Goto("casting")
  /\ UNCHANGED <<heap, heap0, args, arr, res, pyerr, result, written, fuel>>

\* lines 452-457
AA_CheckWriteable ==
  /\ At("assign", "writeable")
  /\ IF ~arr[Top.dst].writeable
     THEN Goto("fail") /\ pyerr' = "ReadOnlyTarget"
     ELSE Goto("casting") /\ UNCHANGED pyerr
  /\ UNCHANGED <<heap, heap0, args, arr, res, result, written, fuel>>

\* lines 459-475
AA_CheckCasting ==
  /\ At("assign", "casting")
  /\ IF ~PyArray_CanCastTypeTo(arr[Top.src].descr, arr[Top.dst].descr, Top.casting)
     THEN Goto("fail") /\ pyerr' = "UnsafeCast"
     ELSE Goto("whichna") /\ UNCHANGED pyerr
  /\ UNCHANGED <<heap, heap0, args, arr, res, result, written, fuel>>

\* the test of line 477 read as if preservewhichna were always NULL
PreserveWhichNAGiven_Never(f) == FALSE

\* line 477: preservewhichna != NULL
PreserveWhichNAGiven(f) == f.pwna

\* lines 477-481
AA_CheckWhichNA ==
  /\ At("assign", "whichna")
  /\ IF PreserveWhichNAGiven(Top)
     THEN Goto("fail") /\ pyerr' = "NotImplemented"
     ELSE Goto("srcna") /\ UNCHANGED pyerr
  /\ UNCHANGED <<heap, heap0, args, arr, res, result, written, fuel>>

\* the scan of line 484 made over every element, the where-mask left out
SourceContainsNA_Everywhere(h, src, wm) == PyArray_ContainsNA(h, src, NoArray)

\* line 484: PyArray_ContainsNA(src, wheremask, NULL)
SourceContainsNA(h, src, wm) == PyArray_ContainsNA(h, src, wm)

\* lines 483-497
AA_SrcNAScan ==
  /\ At("assign", "srcna")
  /\ LET f == Top
         containsna == SourceContainsNA(heap, arr[f.src], arr[f.wm])
     IN  IF f.src_has_maskna /\ ~f.dst_has_maskna
         THEN \/ /\ containsna = -1
                 /\ Goto("fail") /\ pyerr' = "ShapeMismatch" /\ UNCHANGED fuel
              \/ /\ containsna = 1
                 /\ Goto("fail") /\ pyerr' = "UnsupportedNA" /\ UNCHANGED fuel
              \/ /\ containsna = 0
                 /\ stk' = SetTop([f EXCEPT !.pc = "overlap",
                                            !.src_has_maskna = FALSE])
                 /\ UNCHANGED <<pyerr, fuel>>
              \/ /\ fuel > 0
                 /\ fuel' = fuel - 1
                 /\ Goto("fail") /\ pyerr' = "AllocationFailure"
         ELSE Goto("overlap") /\ UNCHANGED <<pyerr, fuel>>
  /\ UNCHANGED <<heap, heap0, args, arr, res, result, written>>

\* lines 499-508
AA_OverlapTest ==
  /\ At("assign", "overlap")
  /\ IF NeedsTemporary(arr[Top.src], arr[Top.dst])
     THEN Goto("newlike")
     ELSE Goto("bcast")
  /\ UNCHANGED <<heap, heap0, args, arr, res, pyerr, result, written, fuel>>

\* lines 511-518: PyArray_NewLikeArray(dst, NPY_KEEPORDER, NULL, 0); the
\* new array's memory is uninitialised
AA_NewLikeArray ==
  /\ At("assign", "newlike")
  /\ LET dst == arr[Top.dst] IN
     \/ \E g \in GarbageVals :
          /\ arr' = [arr EXCEPT !["tmp"] =
                       View("T", 0, dst.dims, CStrides(dst.dims), FALSE,
                            dst.descr, TRUE)]
          /\ heap' = [a \in DOMAIN heap |->
                        IF RegionOf(a) = "T" THEN g ELSE heap[a]]
          /\ res' = Acquire(res, "tmp")
          /\ IF PyArray_HASMASKNA(arr[Top.src])
             THEN Goto("allocmask") ELSE Goto("copy")
          /\ UNCHANGED <<pyerr, fuel>>
     \/ /\ fuel > 0
        /\ fuel' = fuel - 1
        /\ Goto("fail") /\ pyerr' = "AllocationFailure"
        /\ UNCHANGED <<arr, heap, res>>
  /\ UNCHANGED <<heap0, args, result, written>>

\* lines 520-526: PyArray_AllocateMaskNA(tmp, 1, 0, 1)
AA_AllocateMaskNA ==
  /\ At("assign", "allocmask")
  /\ \/ /\ arr' = [arr EXCEPT !["tmp"] =
                     [@ EXCEPT !.hasna = TRUE, !.nadata = RegionBase("Tna"),
                               !.nastrides = arr["tmp"].strides]]
        /\ heap' = [a \in DOMAIN heap |->
                      IF RegionOf(a) = "Tna" THEN 1 ELSE heap[a]]
        /\ Goto("copy")
        /\ UNCHANGED <<res, pyerr, fuel>>
     \/ /\ fuel > 0
        /\ fuel' = fuel - 1
        /\ res' = Release(res, "tmp")
        /\ Goto("fail") /\ pyerr' = "AllocationFailure"
        /\ UNCHANGED <<arr, heap>>
  /\ UNCHANGED <<heap0, args, result, written>>

\* line 528: PyArray_AssignArray(tmp, src, NULL, NPY_UNSAFE_CASTING, 0, NULL)
AA_CopyCall ==
  /\ At("assign", "copy")
  /\ stk' = Append(stk, AssignFrame("tmp", Top.src, "NULL", "unsafe", FALSE,
                                    FALSE, PyArray_HASMASKNA(arr["tmp"]),
                                    PyArray_HASMASKNA(arr[Top.src])))
  /\ UNCHANGED <<heap, heap0, args, arr, res, pyerr, result, written, fuel>>

\* lines 529-535
AA_CopyReturn ==
  /\ At("assign", "copyret")
  /\ IF Top.rc < 0
     THEN /\ res' = Release(res, "tmp")
          /\ Goto("fail")
     ELSE /\ stk' = SetTop([Top EXCEPT !.pc = "bcast", !.src = "tmp",
                                       !.copied_src = TRUE])
          /\ UNCHANGED res
  /\ UNCHANGED <<heap, heap0, args, arr, pyerr, result, written, fuel>>

\* lines 538-567
AA_BroadcastSrc ==
  /\ At("assign", "bcast")
  /\ LET f == Top
         dst == arr[f.dst]
         src == arr[f.src]
         k == IF PyArray_NDIM(src) > PyArray_NDIM(dst)
              THEN StripUnitDims(src.dims, src.nd, dst.nd) ELSE 0
         b == broadcast_strides(dst.nd, dst.dims, src.nd - k,
                                SubSeq(src.dims, k + 1, src.nd),
                                SubSeq(src.strides, k + 1, src.nd))
     IN  IF ~b.ok
         THEN Goto("fail") /\ pyerr' = "ShapeMismatch"
         ELSE /\ stk' = SetTop([f EXCEPT !.pc = "bcastna",
                                         !.src_strides = b.strides])
              /\ UNCHANGED pyerr
  /\ UNCHANGED <<heap, heap0, args, arr, res, result, written, fuel>>

\* lines 569-576
AA_BroadcastSrcNA ==
  /\ At("assign", "bcastna")
  /\ LET f == Top
         dst == arr[f.dst]
         src == arr[f.src]
         b == broadcast_strides(dst.nd, dst.dims, src.nd, src.dims,
                                src.nastrides)
     IN  IF f.src_has_maskna
         THEN IF ~b.ok
              THEN Goto("fail") /\ pyerr' = "ShapeMismatch"
              ELSE /\ stk' = SetTop([f EXCEPT !.pc = "dispatch",
                                              !.src_maskna_strides = b.strides])
                   /\ UNCHANGED pyerr
         ELSE Goto("dispatch") /\ UNCHANGED pyerr
  /\ UNCHANGED <<heap, heap0, args, arr, res, result, written, fuel>>

\* the branch taken as if preservena were always 0
ModeSite_NoPreserve(f, w) ==
  IF f.dst_has_maskna
  THEN IF f.src_has_maskna
       THEN (IF w THEN "L702" ELSE "L585")
       ELSE (IF w THEN "L738" ELSE "L612")
  ELSE (IF w THEN "L746" ELSE "L620")

\* the branch taken when the NA-preserving assignment leaves out the merge
\* of the source's NA mask
ModeSite_NoMerge(f, w) ==
  IF ~f.preservena \/ ~f.dst_has_maskna
  THEN IF f.dst_has_maskna
       THEN IF f.src_has_maskna
            THEN (IF w THEN "L702" ELSE "L585")
            ELSE (IF w THEN "L738" ELSE "L612")
       ELSE (IF w THEN "L746" ELSE "L620")
  ELSE (IF w THEN "L785" ELSE "L649")

\* the branch on preservena and the NA masks, lines 580-583/628 without a
\* where-mask and lines 693-700/757 with one
ModeSite(f, w) ==
  IF ~f.preservena \/ ~f.dst_has_maskna
  THEN IF f.dst_has_maskna
       THEN IF f.src_has_maskna
            THEN (IF w THEN "L702" ELSE "L585")
            ELSE (IF w THEN "L738" ELSE "L612")
       ELSE (IF w THEN "L746" ELSE "L620")
  ELSE IF f.src_has_maskna
       THEN (IF w THEN "L762" ELSE "L630")
       ELSE (IF w THEN "L785" ELSE "L649")

\* lines 578-583, 626-628, 661
AA_Dispatch ==
  /\ At("assign", "dispatch")
  /\ IF Top.wm = "NULL"
     THEN Goto(ModeSite(Top, FALSE))
     ELSE Goto("L663")
  /\ UNCHANGED <<heap, heap0, args, arr, res, pyerr, result, written, fuel>>

\* the scan of line 663 answering "no NA" whatever the where-mask holds
WhereMaskContainsNA_Never(h, wm) == 0

\* line 663: PyArray_ContainsNA(wheremask, NULL, NULL)
WhereMaskContainsNA(h, wm) == PyArray_ContainsNA(h, wm, NoArray)

\* lines 663-682
AA_WhereContainsNA ==
  /\ At("assign", "L663")
  /\ LET containsna == WhereMaskContainsNA(heap, arr[Top.wm]) IN
     \/ /\ containsna = 1
        /\ Goto("fail") /\ pyerr' = "UnsupportedNA" /\ UNCHANGED fuel
     \/ /\ containsna = 0
        /\ Goto("L685") /\ UNCHANGED <<pyerr, fuel>>
     \/ /\ fuel > 0
        /\ fuel' = fuel - 1
        /\ Goto("fail") /\ pyerr' = "AllocationFailure"
  /\ UNCHANGED <<heap, heap0, args, arr, res, result, written>>

\* the where-mask broadcast placed after the destination's NA mask has been
\* set to exposed: a refused where-mask leaves the mask changed
AA_BroadcastWhere_AfterMask ==
  /\ At("assign", "L685")
  /\ LET f == Top
         dst == arr[f.dst]
         wm == arr[f.wm]
         b == broadcast_strides(dst.nd, dst.dims, wm.nd, wm.dims, wm.strides)
         cells == NaFootprint(dst)
     IN  IF ~b.ok
         THEN /\ heap' = [c \in DOMAIN heap |-> IF c \in cells THEN 1 ELSE heap[c]]
              /\ written' = written \cup cells
              /\ Goto("fail") /\ pyerr' = "ShapeMismatch"
         ELSE /\ stk' = SetTop([f EXCEPT !.pc = ModeSite(f, TRUE),
                                         !.wheremask_strides = b.strides])
              /\ UNCHANGED <<pyerr, heap, written>>
  /\ UNCHANGED <<heap0, args, arr, res, result, fuel>>

\* lines 684-700, 755-757
AA_BroadcastWhere ==
  /\ At("assign", "L685")
  /\ LET f == Top
         dst == arr[f.dst]
         wm == arr[f.wm]
         b == broadcast_strides(dst.nd, dst.dims, wm.nd, wm.dims, wm.strides)
     IN  IF ~b.ok
         THEN Goto("fail") /\ pyerr' = "ShapeMismatch"
         ELSE /\ stk' = SetTop([f EXCEPT !.pc = ModeSite(f, TRUE),
                                         !.wheremask_strides = b.strides])
              /\ UNCHANGED pyerr
  /\ UNCHANGED <<heap, heap0, args, arr, res, result, written, fuel>>

(***************************************************************************)
(* The calls of the dispatch.                                              *)
(***************************************************************************)
RawFrame(fn, ndim, shape, ddt, d, ds, sdt, s, ss, m, ms, wdt, w, ws) ==
  [fn |-> fn, pc |-> "prepare", ndim |-> ndim, shape |-> shape,
   dst_dtype |-> ddt, dst_data |-> d, dst_strides |-> ds,
   src_dtype |-> sdt, src_data |-> s, src_strides |-> ss,
   maskna_data |-> m, maskna_strides |-> ms,
   wheremask_dtype |-> wdt, wheremask_data |-> w, wheremask_strides |-> ws,
   shape_it |-> <<>>, dst_strides_it |-> <<>>, src_strides_it |-> <<>>,
   maskna_strides_it |-> <<>>, wheremask_strides_it |-> <<>>,
   coord |-> <<>>, transferdata |-> FALSE, maskand_transferdata |-> FALSE,
   maskna_buffer |-> FALSE, needs_api |-> FALSE,
   count |-> 0, dst_d |-> 0, src_d |-> 0, maskna_d |-> 0, wheremask_d |-> 0,
   calls |-> 0]

RawSites == {"L585", "L597", "L620", "L630", "L649",
             "L702", "L720", "L746", "L762", "L785"}

\* the arguments of the raw call at each site of PyArray_AssignArray; g
\* stands for the entries read beyond the end of PyArray_STRIDES(src)
SiteFrame(f, dst, src, wm, g) ==
  LET nd == PyArray_NDIM(dst)
      shp == dst.dims
  IN
  CASE f.pc = "L585" ->
         RawFrame("raw", nd, shp, "mask", dst.nadata, dst.nastrides,
                  "mask", src.nadata, f.src_maskna_strides,
                  0, <<>>, "none", 0, <<>>)
    [] f.pc = "L597" ->
         RawFrame("rawwm", nd, shp, dst.descr, dst.data, dst.strides,
                  src.descr, src.data, f.src_strides,
                  0, <<>>, "mask", src.nadata, f.src_maskna_strides)
    [] f.pc = "L620" ->
         RawFrame("raw", nd, shp, dst.descr, dst.data, dst.strides,
                  src.descr, src.data, f.src_strides,
                  0, <<>>, "none", 0, <<>>)
    [] f.pc = "L630" ->
         RawFrame("rawwm", nd, shp, "mask", dst.nadata, dst.nastrides,
                  "mask", src.nadata, f.src_maskna_strides,
                  0, <<>>, "mask", dst.nadata, dst.nastrides)
    [] f.pc = "L649" ->
         RawFrame("rawwm", nd, shp, dst.descr, dst.data, dst.strides,
                  src.descr, src.data, StridesRead(src.strides, nd, g),
                  0, <<>>, "mask", dst.nadata, dst.nastrides)
    [] f.pc = "L702" ->
         RawFrame("rawwm", nd, shp, "mask", dst.nadata, dst.nastrides,
                  "mask", src.nadata, f.src_maskna_strides,
                  0, <<>>, wm.descr, wm.data, f.wheremask_strides)
    [] f.pc = "L720" ->
         RawFrame("rawwmna", nd, shp, dst.descr, dst.data, dst.strides,
                  src.descr, src.data, f.src_strides,
                  src.nadata, f.src_maskna_strides,
                  wm.descr, wm.data, f.wheremask_strides)
    [] f.pc = "L746" ->
         RawFrame("rawwm", nd, shp, dst.descr, dst.data, dst.strides,
                  src.descr, src.data, f.src_strides,
                  0, <<>>, wm.descr, wm.data, f.wheremask_strides)
    [] f.pc = "L762" ->
         RawFrame("rawwmna", nd, shp, "mask", dst.nadata, dst.nastrides,
                  "mask", src.nadata, f.src_maskna_strides,
                  dst.nadata, dst.nastrides,
                  wm.descr, wm.data, f.wheremask_strides)
    [] f.pc = "L785" ->
         RawFrame("rawwmna", nd, shp, dst.descr, dst.data, dst.strides,
                  src.descr, src.data, StridesRead(src.strides, nd, g),
                  dst.nadata, dst.nastrides,
                  wm.descr, wm.data, f.wheremask_strides)

\* lines 585, 597, 620, 630, 649, 702, 720, 746, 762, 785
AA_CallRaw ==
  /\ stk # <<>> /\ Top.fn = "assign" /\ Top.pc \in RawSites
  /\ LET f == Top
         dst == arr[f.dst]
         src == arr[f.src]
     IN  \E g \in (IF f.pc \in {"L649", "L785"} /\ Len(src.strides) < dst.nd
                   THEN GarbageStrides ELSE {0}) :
           stk' = Append(stk, SiteFrame(f, dst, src, arr[f.wm], g))
  /\ UNCHANGED <<heap, heap0, args, arr, res, pyerr, result, written, fuel>>

\* lines 612 and 738: PyArray_AssignMaskNA(dst, 1, wheremask, ...) exposes
\* every element of dst that the where-mask selects
AA_AssignMaskNA ==
  /\ stk # <<>> /\ Top.fn = "assign" /\ Top.pc \in {"L612", "L738"}
  /\ LET f == Top
         dst == arr[f.dst]
         wm == arr[f.wm]
         sel == {idx \in Idx(dst.dims) :
                   f.pc = "L612" \/
                   heap[wm.data + Dot(idx, f.wheremask_strides)] # 0}
         cells == {NaAddr(dst, idx) : idx \in sel}
     IN  \/ /\ heap' = [a \in DOMAIN heap |-> IF a \in cells THEN 1 ELSE heap[a]]
            /\ written' = written \cup cells
            /\ Goto(SiteNext(f.pc))
            /\ UNCHANGED <<pyerr, fuel>>
         \/ /\ fuel > 0
            /\ fuel' = fuel - 1
            /\ Goto("fail") /\ pyerr' = "AllocationFailure"
            /\ UNCHANGED <<heap, written>>
  /\ UNCHANGED <<heap0, args, arr, res, result>>

\* lines 800-804
AA_Finish ==
  /\ At("assign", "finish")
  /\ res' = IF Top.copied_src THEN Release(res, "tmp") ELSE res
  /\ Return(0)
  /\ UNCHANGED <<heap, heap0, args, arr, pyerr, written, fuel>>

\* lines 806-810
AA_Fail ==
  /\ At("assign", "fail")
  /\ res' = IF Top.copied_src THEN Release(res, "tmp") ELSE res
  /\ Return(-1)
  /\ UNCHANGED <<heap, heap0, args, arr, pyerr, written, fuel>>

(***************************************************************************)
(* The scalar delegates of lines 399-417, each one operation of another    *)
(* file: the same gates as the array path, then the selected elements.     *)
(***************************************************************************)
\* the elements of dst a scalar assignment selects
ScalarSelected(h, f, dst, wm) ==
  LET ws == BStrides(dst.dims, wm.dims, wm.strides) IN
  {idx \in Idx(dst.dims) :
     /\ f.wm = "NULL" \/ h[wm.data + Dot(idx, ws)] # 0
     /\ ~(f.preservena /\ dst.hasna) \/ Exposed(h[NaAddr(dst, idx)])}

\* the gate a scalar assignment fails at, "none" when it passes
ScalarGate(h, f, dst, src, wm, isna) ==
  IF isna /\ ~dst.hasna THEN "UnsupportedNA"
  ELSE IF ~dst.writeable THEN "ReadOnlyTarget"
  ELSE IF ~isna /\ ~PyArray_CanCastTypeTo(src.descr, dst.descr, f.casting)
       THEN "UnsafeCast"
  ELSE IF f.pwna THEN "NotImplemented"
  ELSE IF f.wm # "NULL" /\ PyArray_ContainsNA(h, wm, NoArray) = 1
       THEN "UnsupportedNA"
  ELSE IF f.wm # "NULL"
          /\ ~broadcast_strides(dst.nd, dst.dims, wm.nd, wm.dims, wm.strides).ok
       THEN "ShapeMismatch"
  ELSE "none"

\* lines 403-410: PyArray_AssignNA(dst, na, wheremask, preservena, ...)
AA_AssignNA ==
  /\ At("assign", "AssignNA")
  /\ LET f == Top
         dst == arr[f.dst]
         wm == arr[f.wm]
         gate == ScalarGate(heap, f, dst, arr[f.src], wm, TRUE)
         cells == {NaAddr(dst, idx) : idx \in ScalarSelected(heap, f, dst, wm)}
     IN  IF gate # "none"
         THEN pyerr' = gate /\ Return(-1) /\ UNCHANGED <<heap, written>>
         ELSE /\ heap' = [a \in DOMAIN heap |-> IF a \in cells THEN 0 ELSE heap[a]]
              /\ written' = written \cup cells
              /\ Return(0)
              /\ UNCHANGED pyerr
  /\ UNCHANGED <<heap0, args, arr, res, fuel>>

\* lines 414-416: PyArray_AssignRawScalar(dst, dtype, data, wheremask, ...)
AA_AssignRawScalar ==
  /\ At("assign", "AssignRawScalar")
  /\ LET f == Top
         dst == arr[f.dst]
         src == arr[f.src]
         wm == arr[f.wm]
         gate == ScalarGate(heap, f, dst, src, wm, FALSE)
         sel == ScalarSelected(heap, f, dst, wm)
         cells == {ElemAddr(dst, idx) : idx \in sel}
         nacells == IF dst.hasna /\ ~f.preservena
                    THEN {NaAddr(dst, idx) : idx \in sel} ELSE {}
         v == Cast(heap[src.data], src.descr, dst.descr)
     IN  IF gate # "none"
         THEN pyerr' = gate /\ Return(-1) /\ UNCHANGED <<heap, written>>
         ELSE /\ heap' = [a \in DOMAIN heap |->
                            IF a \in cells THEN v
                            ELSE IF a \in nacells THEN 1 ELSE heap[a]]
              /\ written' = written \cup cells \cup nacells
              /\ Return(0)
              /\ UNCHANGED pyerr
  /\ UNCHANGED <<heap0, args, arr, res, fuel>>

(***************************************************************************)
(* The raw loops.  fn is "raw" (raw_array_assign_array), "rawwm"           *)
(* (raw_array_wheremasked_assign_array) or "rawwmna"                       *)
(* (raw_array_wheremasked_assign_array_preservena).                        *)
(***************************************************************************)
IsRaw == stk # <<>> /\ Top.fn \in {"raw", "rawwm", "rawwmna"}

Zeros(n) == SubSeq([k \in 1..n |-> 0], 1, n)

\* the operands handed to PyArray_PrepareTwo/Three/FourRawArrayIter
PrepareDatas(f) ==
  CASE f.fn = "raw" -> <<f.dst_data, f.src_data>>
    [] f.fn = "rawwm" -> <<f.dst_data, f.src_data, f.wheremask_data>>
    [] f.fn = "rawwmna" ->
         <<f.dst_data, f.src_data, f.maskna_data, f.wheremask_data>>

PrepareStrides(f) ==
  CASE f.fn = "raw" -> <<f.dst_strides, f.src_strides>>
    [] f.fn = "rawwm" -> <<f.dst_strides, f.src_strides, f.wheremask_strides>>
    [] f.fn = "rawwmna" ->
         <<f.dst_strides, f.src_strides, f.maskna_strides, f.wheremask_strides>>

\* the frame after a successful Prepare: lines 60-66, 147-155, 252-262
Prepared(f) ==
  LET p == PrepareRawArrayIter(f.ndim, f.shape, PrepareDatas(f), PrepareStrides(f))
      wi == IF f.fn = "rawwm" THEN 3 ELSE 4
  IN  [f EXCEPT
         !.pc = IF f.fn = "rawwmna" THEN "malloc" ELSE "overlap",
         !.ndim = p.ndim, !.shape_it = p.shape,
         !.dst_data = p.datas[1], !.dst_strides_it = p.strs[1],
         !.src_data = p.datas[2], !.src_strides_it = p.strs[2],
         !.maskna_data = IF f.fn = "rawwmna" THEN p.datas[3] ELSE 0,
         !.maskna_strides_it = IF f.fn = "rawwmna" THEN p.strs[3]
                               ELSE Zeros(p.ndim),
         !.wheremask_data = IF f.fn = "raw" THEN 0 ELSE p.datas[wi],
         !.wheremask_strides_it = IF f.fn = "raw" THEN Zeros(p.ndim)
                                  ELSE p.strs[wi]]

\* lines 53-68, 140-157, 245-264
raw_Prepare ==
  /\ IsRaw /\ Top.pc = "prepare"
  /\ \/ /\ stk' = SetTop(Prepared(Top))
        /\ UNCHANGED <<pyerr, result, fuel>>
     \/ /\ fuel > 0
        /\ fuel' = fuel - 1
        /\ pyerr' = "IterationSetupError"
        /\ Return(-1)
  /\ UNCHANGED <<heap, heap0, args, arr, res, written>>

\* lines 266-273
raw_Malloc ==
  /\ IsRaw /\ Top.pc = "malloc"
  /\ \/ /\ res' = Acquire(res, "maskna_buffer")
        /\ stk' = SetTop([Top EXCEPT !.pc = "overlap", !.maskna_buffer = TRUE])
        /\ UNCHANGED <<pyerr, result, fuel>>
     \/ /\ fuel > 0
        /\ fuel' = fuel - 1
        /\ pyerr' = "AllocationFailure"
        /\ Return(-1)
        /\ UNCHANGED res
  /\ UNCHANGED <<heap, heap0, args, arr, written>>

\* the test of lines 74-75, 163-164, 279-280
OverlapReverse(f) ==
  /\ f.ndim = 1
  /\ f.src_data < f.dst_data
  /\ f.src_data + f.shape_it[1] * f.src_strides_it[1] > f.dst_data

\* lines 76-79, 165-170, 281-288
Reversed(f) ==
  LET n == f.shape_it[1] IN
  [f EXCEPT
     !.src_data = @ + (n - 1) * f.src_strides_it[1],
     !.dst_data = @ + (n - 1) * f.dst_strides_it[1],
     !.maskna_data = @ + (n - 1) * f.maskna_strides_it[1],
     !.wheremask_data = @ + (n - 1) * f.wheremask_strides_it[1],
     !.src_strides_it = <<-f.src_strides_it[1]>>,
     !.dst_strides_it = <<-f.dst_strides_it[1]>>,
     !.maskna_strides_it = <<-f.maskna_strides_it[1]>>,
     !.wheremask_strides_it = <<-f.wheremask_strides_it[1]>>]

\* lines 70-80, 159-171, 275-289
raw_OverlapCheck ==
  /\ IsRaw /\ Top.pc = "overlap"
  /\ stk' = SetTop([(IF OverlapReverse(Top) THEN Reversed(Top) ELSE Top)
                      EXCEPT !.pc = "gettransfer"])
  /\ UNCHANGED <<heap, heap0, args, arr, res, pyerr, result, written, fuel>>

\* lines 82-90, 173-183, 291-300: PyArray_Get(Masked)DTypeTransferFunction;
\* NPY_RAW_ITER_START clears coord when the loop is entered
raw_GetTransfer ==
  /\ IsRaw /\ Top.pc = "gettransfer"
  /\ LET f == Top IN
     \/ /\ res' = Acquire(res, "transferdata")
        /\ stk' = SetTop([f EXCEPT
                   !.pc = IF f.fn = "rawwmna" THEN "getmaskand" ELSE "body",
                   !.transferdata = TRUE,
                   !.needs_api = NeedsApi(f.src_dtype) \/ NeedsApi(f.dst_dtype),
                   !.coord = Zeros(f.ndim)])
        /\ UNCHANGED <<pyerr, result, fuel>>
     \/ /\ fuel > 0
        /\ fuel' = fuel - 1
        /\ pyerr' = "TransferFailure"
        /\ res' = IF f.fn = "rawwmna" THEN Release(res, "maskna_buffer") ELSE res
        /\ Return(-1)
  /\ UNCHANGED <<heap, heap0, args, arr, written>>

\* lines 302-313: PyArray_GetMaskAndFunction
raw_GetMaskAnd ==
  /\ IsRaw /\ Top.pc = "getmaskand"
  /\ \/ /\ res' = Acquire(res, "maskand_transferdata")
        /\ stk' = SetTop([Top EXCEPT !.pc = "body", !.maskand_transferdata = TRUE])
        /\ UNCHANGED <<pyerr, result, fuel>>
     \/ /\ fuel > 0
        /\ fuel' = fuel - 1
        /\ pyerr' = "TransferFailure"
        /\ res' = Release(Release(res, "maskna_buffer"), "transferdata")
        /\ Return(-1)
  /\ UNCHANGED <<heap, heap0, args, arr, written>>

\* the source reads of a run that fall outside every buffer
ReadsOutside(s, ss, n) == \E i \in 0..(n - 1) : (s + i * ss) \notin Addrs

GarbageFor(s, ss, n) == IF ReadsOutside(s, ss, n) THEN GarbageVals ELSE {0}

\* the run with the where-mask dropped from the masked transfer
InnerRun_Unmasked(f, g) ==
  [d |-> f.dst_data, ds |-> f.dst_strides_it[1],
   s |-> f.src_data, ss |-> f.src_strides_it[1],
   n |-> f.shape_it[1], sdt |-> f.src_dtype, ddt |-> f.dst_dtype,
   mk |-> "none",
   m |-> f.wheremask_data, ms |-> f.wheremask_strides_it[1],
   buf |-> <<>>, g |-> g]

\* the run handed to the transfer callable at lines 98-99 and 191-193
InnerRun(f, g) ==
  [d |-> f.dst_data, ds |-> f.dst_strides_it[1],
   s |-> f.src_data, ss |-> f.src_strides_it[1],
   n |-> f.shape_it[1], sdt |-> f.src_dtype, ddt |-> f.dst_dtype,
   mk |-> IF f.fn = "raw" THEN "none" ELSE "heap",
   m |-> f.wheremask_data, ms |-> f.wheremask_strides_it[1],
   buf |-> <<>>, g |-> g]

\* lines 96-99, 189-193: one invocation of the transfer callable; with a
\* dtype that needs the API it may instead report an error
raw_Transfer ==
  /\ IsRaw /\ Top.fn \in {"raw", "rawwm"} /\ Top.pc = "body"
  /\ LET f == Top IN
     \/ \E g \in GarbageFor(f.src_data, f.src_strides_it[1], f.shape_it[1]) :
          LET r == stransfer(heap, InnerRun(f, g)) IN
          /\ heap' = r.h
          /\ written' = written \cup r.wr
          /\ UNCHANGED <<pyerr, fuel>>
     \/ /\ f.needs_api /\ fuel > 0
        /\ fuel' = fuel - 1
        /\ pyerr' = "TransferFailure"
        /\ UNCHANGED <<heap, written>>
  /\ stk' = SetTop([Top EXCEPT !.pc = "next", !.calls = @ + 1])
  /\ UNCHANGED <<heap0, args, arr, res, result>>

\* lines 320-327
rawna_InnerStart ==
  /\ IsRaw /\ Top.fn = "rawwmna" /\ Top.pc = "body"
  /\ stk' = SetTop([Top EXCEPT !.pc = "chunk",
                               !.count = Top.shape_it[1],
                               !.dst_d = Top.dst_data,
                               !.src_d = Top.src_data,
                               !.maskna_d = Top.maskna_data,
                               !.wheremask_d = Top.wheremask_data])
  /\ UNCHANGED <<heap, heap0, args, arr, res, pyerr, result, written, fuel>>

\* lines 329-331
buffered_count(f) ==
  IF f.count < NPY_ARRAY_ASSIGN_BUFFERSIZE THEN f.count
  ELSE NPY_ARRAY_ASSIGN_BUFFERSIZE

\* the run of one chunk, lines 340-342, under the buffered mask
ChunkRun(f, buf, g) ==
  [d |-> f.dst_d, ds |-> f.dst_strides_it[1],
   s |-> f.src_d, ss |-> f.src_strides_it[1],
   n |-> buffered_count(f), sdt |-> f.src_dtype, ddt |-> f.dst_dtype,
   mk |-> "buf", m |-> 0, ms |-> 0, buf |-> buf, g |-> g]

\* the advance with the where-mask pointer left behind
ChunkAdvance_WhereStays(f) ==
  LET bc == buffered_count(f) IN
  [f EXCEPT !.dst_d = @ + bc * f.dst_strides_it[1],
            !.src_d = @ + bc * f.src_strides_it[1],
            !.maskna_d = @ + bc * f.maskna_strides_it[1],
            !.count = @ - bc,
            !.pc = IF f.count - bc > 0 THEN "chunk" ELSE "next",
            !.calls = @ + 1]

\* lines 344-349
ChunkAdvance(f) ==
  LET bc == buffered_count(f) IN
  [f EXCEPT !.dst_d = @ + bc * f.dst_strides_it[1],
            !.src_d = @ + bc * f.src_strides_it[1],
            !.maskna_d = @ + bc * f.maskna_strides_it[1],
            !.wheremask_d = @ + bc * f.wheremask_strides_it[1],
            !.count = @ - bc,
            !.pc = IF f.count - bc > 0 THEN "chunk" ELSE "next",
            !.calls = @ + 1]

\* lines 328-349: one pass of the do-while
rawna_Chunk ==
  /\ IsRaw /\ Top.fn = "rawwmna" /\ Top.pc = "chunk"
  /\ LET f == Top
         bc == buffered_count(f)
     IN
     \/ \E g \in GarbageFor(f.src_d, f.src_strides_it[1], bc) :
          LET buf == maskand_stransfer(heap, f.maskna_d, f.maskna_strides_it[1],
                                       f.wheremask_d, f.wheremask_strides_it[1],
                                       bc, g)
              r == stransfer(heap, ChunkRun(f, buf, g))
          IN  /\ heap' = r.h
              /\ written' = written \cup r.wr
              /\ UNCHANGED <<pyerr, fuel>>
     \/ /\ f.needs_api /\ fuel > 0
        /\ fuel' = fuel - 1
        /\ pyerr' = "TransferFailure"
        /\ UNCHANGED <<heap, written>>
  /\ stk' = SetTop(ChunkAdvance(Top))
  /\ UNCHANGED <<heap0, args, arr, res, result>>

\* NPY_RAW_ITER_TWO/THREE/FOUR_NEXT from axis idim on: the frame with the
\* coordinates and data pointers advanced, and whether the loop goes on
RECURSIVE IterNext(_, _)
IterNext(f, idim) ==
  IF idim > f.ndim THEN [f |-> f, more |-> FALSE]
  ELSE IF f.coord[idim] + 1 = f.shape_it[idim] THEN
    IterNext([f EXCEPT
       !.coord[idim] = 0,
       !.dst_data = @ - (f.shape_it[idim] - 1) * f.dst_strides_it[idim],
       !.src_data = @ - (f.shape_it[idim] - 1) * f.src_strides_it[idim],
       !.maskna_data = @ - (f.shape_it[idim] - 1) * f.maskna_strides_it[idim],
       !.wheremask_data = @ - (f.shape_it[idim] - 1) * f.wheremask_strides_it[idim]],
       idim + 1)
  ELSE
    [f |-> [f EXCEPT
       !.coord[idim] = @ + 1,
       !.dst_data = @ + f.dst_strides_it[idim],
       !.src_data = @ + f.src_strides_it[idim],
       !.maskna_data = @ + f.maskna_strides_it[idim],
       !.wheremask_data = @ + f.wheremask_strides_it[idim]],
     more |-> TRUE]

\* lines 100-102, 194-197, 350-354
raw_IterNext ==
  /\ IsRaw /\ Top.pc = "next"
  /\ LET n == IterNext(Top, 2) IN
     stk' = SetTop([n.f EXCEPT !.pc = IF n.more THEN "body" ELSE "finish"])
  /\ UNCHANGED <<heap, heap0, args, arr, res, pyerr, result, written, fuel>>

\* the releases at the end of a raw loop without the PyArray_free of line 360
ReleaseAtFinish_KeepBuffer(f, r) ==
  LET r2 == IF f.transferdata THEN Release(r, "transferdata") ELSE r
  IN  IF f.fn = "rawwmna" /\ f.maskand_transferdata
      THEN Release(r2, "maskand_transferdata") ELSE r2

\* lines 104, 199, 360-362: PyArray_free(maskna_buffer) and NPY_AUXDATA_FREE
\* of the transfer data (a no-op on NULL)
ReleaseAtFinish(f, r) ==
  LET r1 == IF f.fn = "rawwmna" THEN Release(r, "maskna_buffer") ELSE r
      r2 == IF f.transferdata THEN Release(r1, "transferdata") ELSE r1
  IN  IF f.fn = "rawwmna" /\ f.maskand_transferdata
      THEN Release(r2, "maskand_transferdata") ELSE r2

\* lines 104-110, 199-205, 356-364
raw_Finish ==
  /\ IsRaw /\ Top.pc = "finish"
  /\ res' = ReleaseAtFinish(Top, res)
  /\ Return(IF Top.needs_api /\ PyErr_Occurred THEN -1 ELSE 0)
  /\ UNCHANGED <<heap, heap0, args, arr, pyerr, written, fuel>>

(***************************************************************************)
(* The calls explored: the arrays as constructed before the call and the   *)
(* arguments of the call.                                                  *)
(***************************************************************************)
Ones == [k \in 1..BufLen |-> 1]

\* mask contents: any flags on the first k cells, exposed (true) beyond
MaskPats(k) == {m \in [1..BufLen -> {0, 1}] : \A c \in 1..BufLen : c > k => m[c] = 1}

\* memory before the call: distinct payloads, the given mask cells
HeapOf(am, bm, wv, wn) ==
  [a \in Addrs |->
     LET r == RegionOf(a)
         c == (a % BufLen) + 1
     IN  CASE r = "A" -> c
           [] r = "Ana" -> am[c]
           [] r = "B" -> 10 + c
           [] r = "Bna" -> bm[c]
           [] r = "W" -> wv[c]
           [] r = "Wna" -> wn[c]
           [] OTHER -> 0]

InBuf(off, n, st) == off \in 0..(BufLen - 1) /\ (off + (n - 1) * st) \in 0..(BufLen - 1)

\* the place of a view in its buffer
G(r, off, dims, strides) == [r |-> r, off |-> off, dims |-> dims, strides |-> strides]

NoG == G("none", 0, <<>>, <<>>)

\* the 1-D views of the buffer r
Geoms1D(r) ==
  {G(r, w[1], <<w[2]>>, <<w[3]>>) :
     w \in {v \in (0..(BufLen - 1)) \X (1..MaxLen) \X {-2, -1, 1, 2} :
              InBuf(v[1], v[2], v[3]) /\ (v[2] = 1 => v[3] = 1)}}

Pat(bits) == [k \in 1..BufLen |-> IF k <= Len(bits) THEN bits[k] ELSE 1]

\* a few flag patterns for four-element arrays
Pats4 == {Ones, Pat(<<1, 0, 0, 1>>), Pat(<<0, 1, 1, 0>>)}

\* one call: the arrays built from their places and flags, the memory, the
\* arguments.  Mask contents that no array of the call uses are normalised.
Mk(o) ==
  LET dst == View(o.dg.r, o.dg.off, o.dg.dims, o.dg.strides, o.dh, o.dd, o.wr)
      src == View(o.sg.r, o.sg.off, o.sg.dims, o.sg.strides, o.sh, o.sd, TRUE)
      wm == IF o.wg.r = "none" THEN NoArray
            ELSE View("W", o.wg.off, o.wg.dims, o.wg.strides, o.wn # Ones,
                      "bool", TRUE)
      usesA == (o.dg.r = "A" /\ o.dh) \/ (o.sg.r = "A" /\ o.sh)
      usesB == (o.dg.r = "B" /\ o.dh) \/ (o.sg.r = "B" /\ o.sh)
  IN  [dst |-> dst, src |-> src, wm |-> wm, casting |-> o.casting,
       preservena |-> o.pr, pwna |-> o.pwna,
       heap |-> HeapOf(IF usesA THEN o.am ELSE Ones,
                       IF usesB THEN o.bm ELSE Ones,
                       IF o.wg.r = "none" THEN Ones ELSE o.wv,
                       IF o.wg.r = "none" THEN Ones ELSE o.wn)]

\* 1-D views of one buffer, no masks: every pair of views
SameBuffer1D ==
  [dg : Geoms1D("A"), sg : Geoms1D("A"), wg : {NoG},
   dh : {FALSE}, sh : {FALSE}, pr : {FALSE},
   am : {Ones}, bm : {Ones}, wv : {Ones}, wn : {Ones},
   wr : {TRUE}, dd : {"wide"}, sd : {"wide"}, casting : {"safe"}, pwna : {FALSE}]

\* separate buffers, 1-D: every mode (NA masks on either side with any
\* flags, a where-mask with any pattern, preservena 0 and 1)
Modes1D ==
  [dg : {G("A", 0, <<2>>, <<1>>)},
   sg : {G("B", 0, <<2>>, <<1>>), G("B", 1, <<2>>, <<-1>>), G("B", 0, <<1>>, <<1>>)},
   wg : {NoG, G("W", 0, <<2>>, <<1>>)},
   dh : BOOLEAN, sh : BOOLEAN, pr : BOOLEAN,
   am : MaskPats(2), bm : MaskPats(2), wv : MaskPats(2), wn : {Ones},
   wr : {TRUE}, dd : {"wide"}, sd : {"wide"}, casting : {"safe"}, pwna : {FALSE}]

\* overlapping 1-D views of one buffer in every mode
SharedPairs ==
  {<<G("A", 1, <<2>>, <<1>>), G("A", 0, <<2>>, <<1>>)>>,
   <<G("A", 0, <<2>>, <<1>>), G("A", 1, <<2>>, <<1>>)>>,
   <<G("A", 0, <<2>>, <<2>>), G("A", 0, <<2>>, <<1>>)>>,
   <<G("A", 0, <<2>>, <<1>>), G("A", 2, <<2>>, <<-1>>)>>}

Shared1D ==
  {[o EXCEPT !.dg = p[1], !.sg = p[2]] :
     p \in SharedPairs,
     o \in [dg : {NoG}, sg : {NoG}, wg : {NoG, G("W", 0, <<2>>, <<1>>)},
            dh : BOOLEAN, sh : BOOLEAN, pr : BOOLEAN,
            am : MaskPats(3), bm : {Ones}, wv : MaskPats(2), wn : {Ones},
            wr : {TRUE}, dd : {"wide"}, sd : {"wide"}, casting : {"safe"},
            pwna : {FALSE}]}

\* a 2-D destination: same-shape, broadcast and overlapping sources
TwoD ==
  [dg : {G("A", 0, <<2, 2>>, <<2, 1>>)},
   sg : {G("B", 0, <<2, 2>>, <<2, 1>>), G("B", 0, <<1, 2>>, <<2, 1>>),
         G("B", 0, <<2>>, <<1>>), G("B", 0, <<2, 1>>, <<1, 1>>),
         G("A", 0, <<2, 2>>, <<1, 2>>)},
   wg : {NoG, G("W", 0, <<2, 2>>, <<2, 1>>)},
   dh : BOOLEAN, sh : BOOLEAN, pr : BOOLEAN,
   am : Pats4, bm : Pats4, wv : Pats4, wn : {Ones},
   wr : {TRUE}, dd : {"wide"}, sd : {"wide"}, casting : {"safe"}, pwna : {FALSE}]

\* 2-D destinations of other layouts, no NA masks
TwoDLayouts ==
  [dg : {G("A", 0, <<2, 2>>, <<1, 2>>), G("A", 3, <<2, 2>>, <<-2, -1>>),
         G("A", 1, <<2, 2>>, <<2, -1>>)},
   sg : {G("B", 0, <<2, 2>>, <<2, 1>>), G("B", 0, <<1, 2>>, <<2, 1>>),
         G("A", 0, <<2, 2>>, <<2, 1>>)},
   wg : {NoG, G("W", 0, <<2, 2>>, <<2, 1>>), G("W", 0, <<1, 2>>, <<2, 1>>)},
   dh : {FALSE}, sh : {FALSE}, pr : {FALSE},
   am : {Ones}, bm : {Ones}, wv : Pats4, wn : {Ones},
   wr : {TRUE}, dd : {"wide", "narrow"}, sd : {"wide"}, casting : {"unsafe"},
   pwna : {FALSE}]

\* the gates: read-only destination, casting rule, preservewhichna, NA in
\* the source or in the where-mask
Gates ==
  [dg : {G("A", 0, <<2>>, <<1>>)}, sg : {G("B", 0, <<2>>, <<1>>)},
   wg : {NoG, G("W", 0, <<2>>, <<1>>)},
   dh : BOOLEAN, sh : BOOLEAN, pr : BOOLEAN,
   am : {Pat(<<1, 0>>)}, bm : {Ones, Pat(<<1, 0>>), Pat(<<0, 1>>)},
   wv : {Pat(<<1, 0>>), Pat(<<0, 1>>)}, wn : {Ones, Pat(<<0, 1>>)},
   wr : BOOLEAN, dd : {"wide", "narrow"}, sd : {"wide"},
   casting : {"safe", "unsafe"}, pwna : BOOLEAN]

\* source and destination the identical view, or differing in the dtype
\* object only; rank 0, 1 and 2
SelfGeoms ==
  {G("A", 0, <<>>, <<>>), G("A", 0, <<2>>, <<1>>), G("A", 0, <<2, 2>>, <<2, 1>>)}

SelfAssign ==
  {[o EXCEPT !.dg = g, !.sg = g, !.dh = h, !.sh = h] :
     g \in SelfGeoms, h \in BOOLEAN,
     o \in [dg : {NoG}, sg : {NoG}, wg : {NoG, G("W", 0, <<>>, <<>>)},
            dh : {FALSE}, sh : {FALSE}, pr : BOOLEAN,
            am : {Ones, Pat(<<0, 1>>)}, bm : {Ones}, wv : {Ones},
            wn : {Ones, Pat(<<0>>)},
            wr : BOOLEAN, dd : {"wide"}, sd : {"wide", "wide2"},
            casting : {"safe"}, pwna : BOOLEAN]}

\* a rank-0 source
Scalars ==
  [dg : {G("A", 0, <<2>>, <<1>>)}, sg : {G("B", 0, <<>>, <<>>)},
   wg : {NoG, G("W", 0, <<2>>, <<1>>)},
   dh : BOOLEAN, sh : BOOLEAN, pr : BOOLEAN,
   am : {Ones, Pat(<<1, 0>>)}, bm : {Ones, Pat(<<0>>)},
   wv : {Pat(<<1, 0>>)}, wn : {Ones, Pat(<<0, 1>>)},
   wr : BOOLEAN, dd : {"wide"}, sd : {"wide"}, casting : {"safe"},
   pwna : BOOLEAN]

\* sources of higher rank than the destination, shapes that do not match
Shapes ==
  [dg : {G("A", 0, <<2>>, <<1>>)},
   sg : {G("B", 0, <<1, 2>>, <<2, 1>>), G("B", 0, <<1, 1, 2>>, <<2, 2, 1>>),
         G("B", 0, <<3>>, <<1>>), G("B", 0, <<2, 1>>, <<1, 1>>)},
   wg : {NoG, G("W", 0, <<2>>, <<1>>), G("W", 0, <<3>>, <<1>>)},
   dh : BOOLEAN, sh : BOOLEAN, pr : BOOLEAN,
   am : {Pat(<<1, 0>>)}, bm : {Pat(<<1, 0>>)}, wv : {Pat(<<1, 0>>)}, wn : {Ones},
   wr : {TRUE}, dd : {"wide"}, sd : {"wide"}, casting : {"safe"}, pwna : {FALSE}]

\* dtypes whose transfer needs the API and may report an error
ObjectDtype ==
  [dg : {G("A", 0, <<2>>, <<1>>), G("A", 0, <<2, 2>>, <<2, 1>>)},
   sg : {G("B", 0, <<2>>, <<1>>), G("B", 0, <<1, 2>>, <<2, 1>>),
         G("B", 0, <<2, 2>>, <<2, 1>>)},
   wg : {NoG, G("W", 0, <<2>>, <<1>>)},
   dh : BOOLEAN, sh : BOOLEAN, pr : BOOLEAN,
   am : {Pat(<<1, 0>>)}, bm : {Pat(<<0, 1>>)}, wv : {Pat(<<1, 0>>)}, wn : {Ones},
   wr : {TRUE}, dd : {"obj"}, sd : {"obj"}, casting : {"safe"}, pwna : {FALSE}]

\* the longest 1-D runs with a where-mask and NA preservation: runs that
\* take more than one chunk, of any direction and stride
LongGeoms(r) ==
  {g \in Geoms1D(r) : g.dims = <<MaxLen>> /\ g.off \in {0, BufLen - 1}}

LongRuns ==
  [dg : LongGeoms("A"),
   sg : {g \in LongGeoms("B") : g.off = 0} \cup {G("B", 0, <<1>>, <<1>>)},
   wg : {g \in LongGeoms("W") : g.strides[1] \in {-1, 1, 2}}
          \cup {G("W", 0, <<1>>, <<1>>)},
   dh : {TRUE}, sh : BOOLEAN, pr : {TRUE},
   am : Pats4, bm : {Ones}, wv : Pats4, wn : {Ones},
   wr : {TRUE}, dd : {"wide"}, sd : {"wide"}, casting : {"safe"}, pwna : {FALSE}]

Scenarios ==
  {Mk(o) : o \in SameBuffer1D \cup Modes1D \cup Shared1D \cup TwoD
                 \cup TwoDLayouts \cup Gates \cup SelfAssign \cup Scalars
                 \cup Shapes \cup ObjectDtype \cup LongRuns}

Init ==
  \E sc \in Scenarios :
    /\ heap = sc.heap
    /\ heap0 = sc.heap
    /\ args = [casting |-> sc.casting, preservena |-> sc.preservena,
                pwna |-> sc.pwna]
    /\ arr = [dst |-> sc.dst, src |-> sc.src, wm |-> sc.wm, tmp |-> NoArray,
              NULL |-> NoArray]
    /\ stk = <<AssignFrame("dst", "src", IF sc.wm.nd < 0 THEN "NULL" ELSE "wm",
                           sc.casting, sc.preservena, sc.pwna,
                           PyArray_HASMASKNA(sc.dst), PyArray_HASMASKNA(sc.src))>>
    /\ res = NoRes
    /\ pyerr = "none"
    /\ result = "running"
    /\ written = {}
    /\ fuel = MaxFaults

Next ==
  \/ AA_ScalarDispatch
  \/ AA_AssignNA
  \/ AA_AssignRawScalar
  \/ AA_RedundantCopy
  \/ AA_CheckWriteable
  \/ AA_CheckCasting
  \/ AA_CheckWhichNA
  \/ AA_SrcNAScan
  \/ AA_OverlapTest
  \/ AA_NewLikeArray
  \/ AA_AllocateMaskNA
  \/ AA_CopyCall
  \/ AA_CopyReturn
  \/ AA_BroadcastSrc
  \/ AA_BroadcastSrcNA
  \/ AA_Dispatch
  \/ AA_WhereContainsNA
  \/ AA_BroadcastWhere
  \/ AA_CallRaw
  \/ AA_AssignMaskNA
  \/ AA_Finish
  \/ AA_Fail
  \/ raw_Prepare
  \/ raw_Malloc
  \/ raw_OverlapCheck
  \/ raw_GetTransfer
  \/ raw_GetMaskAnd
  \/ raw_Transfer
  \/ rawna_InnerStart
  \/ rawna_Chunk
  \/ raw_IterNext
  \/ raw_Finish

Spec == Init /\ [][Next]_vars

Done == stk = <<>>

(***************************************************************************)
(* The call as its caller sees it: the arrays handed in, the memory before *)
(* (heap0) and after (heap).                                               *)
(***************************************************************************)
Dst == arr["dst"]

Src == arr["src"]

Wm == arr["wm"]

HasWhere == Wm.nd >= 0

\* leading unit dimensions of the source that broadcasting drops
SrcStrip ==
  IF Src.nd > Dst.nd THEN StripUnitDims(Src.dims, Src.nd, Dst.nd) ELSE 0

\* the source viewed with the destination's shape
SrcBroadcast(strides) ==
  broadcast_strides(Dst.nd, Dst.dims, Src.nd - SrcStrip,
                    SubSeq(Src.dims, SrcStrip + 1, Src.nd),
                    SubSeq(strides, SrcStrip + 1, Src.nd))

WhereBroadcast ==
  broadcast_strides(Dst.nd, Dst.dims, Wm.nd, Wm.dims, Wm.strides)

\* the source element, and its NA flag, that broadcasting pairs with the
\* destination index
SrcElemAddr(idx) == Src.data + Dot(idx, SrcBroadcast(Src.strides).strides)

SrcNaAddr(idx) == Src.nadata + Dot(idx, SrcBroadcast(Src.nastrides).strides)

\* the where-mask selects the destination index (always, without one)
WhereAt(idx) ==
  ~HasWhere \/ heap0[Wm.data + Dot(idx, WhereBroadcast.strides)] # 0

ShapesFit == SrcBroadcast(Src.strides).ok /\ (HasWhere => WhereBroadcast.ok)

\* NA flags before the call
DstWasNA(idx) == Dst.hasna /\ ~Exposed(heap0[NaAddr(Dst, idx)])

SrcWasNA(idx) == Src.hasna /\ ~Exposed(heap0[SrcNaAddr(idx)])

SrcHoldsNA ==
  Src.hasna /\ \E idx \in Idx(Src.dims) : ~Exposed(heap0[NaAddr(Src, idx)])

WhereHoldsNA ==
  HasWhere /\ Wm.hasna /\ \E idx \in Idx(Wm.dims) : ~Exposed(heap0[NaAddr(Wm, idx)])

\* the cells of the destination: payloads and NA flags
DstCells == Footprint(Dst) \cup NaFootprint(Dst)

\* the checks of lines 452-481 pass
GatesPass ==
  /\ Dst.writeable
  /\ PyArray_CanCastTypeTo(Src.descr, Dst.descr, args.casting)
  /\ ~args.pwna

\* no allocation or transfer failure was injected
NoFault == fuel = MaxFaults

Succeeded == Done /\ result = "success"

Failed == Done /\ result = "failure"

SelfAssignment == Src.nd >= 1 /\ RedundantCopy(Src, Dst)

(***************************************************************************)
(* C1                                                                      *)
(***************************************************************************)
\* the call's case: 1-D views of one buffer that share cells, strides of
\* the same sign, no NA masks, no where-mask
Overlap1DCase ==
  /\ Dst.nd = 1 /\ Src.nd = 1
  /\ Src.dims[1] \in {1, Dst.dims[1]}
  /\ Footprint(Dst) \cap Footprint(Src) # {}
  /\ Dst.strides[1] * Src.strides[1] > 0
  /\ ~Dst.hasna /\ ~Src.hasna /\ ~HasWhere

\* every destination element holds the pre-call value of its source element
DstIsOldSrc ==
  \A idx \in Idx(Dst.dims) :
    heap[ElemAddr(Dst, idx)] = Cast(heap0[SrcElemAddr(idx)], Src.descr, Dst.descr)

\* C1 as stated: after an unmasked assignment between overlapping 1-D views
\* with strides of the same sign (of any magnitudes), every destination
\* element equals the value its source element held before the call.
C1_Overlap1D_AsClaimed ==
  (Succeeded /\ Overlap1DCase) => DstIsOldSrc

(***************************************************************************)
(* C2                                                                      *)
(***************************************************************************)
\* C2: in a call with a where-mask, at every moment of the call, the payload
\* of every destination element whose (broadcast) where-mask value is false
\* is the payload it had before the call, and that cell has not been stored
\* to.
C2_WhereFalseUntouched ==
  (HasWhere /\ WhereBroadcast.ok) =>
    \A idx \in Idx(Dst.dims) :
      ~WhereAt(idx) =>
        /\ heap[ElemAddr(Dst, idx)] = heap0[ElemAddr(Dst, idx)]
        /\ ElemAddr(Dst, idx) \notin written

\* C2 witness: a where-masked array assignment that succeeded, stored a new
\* payload where the mask is true and skipped an element where it is false
C2_Witness ==
  /\ Succeeded /\ HasWhere /\ Src.nd >= 1
  /\ \E idx \in Idx(Dst.dims) : ~WhereAt(idx)
  /\ \E idx \in Idx(Dst.dims) :
       /\ WhereAt(idx)
       /\ heap[ElemAddr(Dst, idx)] # heap0[ElemAddr(Dst, idx)]

(***************************************************************************)
(* C3                                                                      *)
(***************************************************************************)
\* C3: with preservena=1 and a destination that has an NA mask, at every
\* moment of the call, every destination element that was NA before the call
\* keeps its NA flag and its payload, and neither cell has been stored to.
C3_PreserveNAKeepsNA ==
  (args.preservena /\ Dst.hasna) =>
    \A idx \in Idx(Dst.dims) :
      DstWasNA(idx) =>
        /\ heap[NaAddr(Dst, idx)] = heap0[NaAddr(Dst, idx)]
        /\ heap[ElemAddr(Dst, idx)] = heap0[ElemAddr(Dst, idx)]
        /\ NaAddr(Dst, idx) \notin written
        /\ ElemAddr(Dst, idx) \notin written

\* C3 witness: a preservena=1 array assignment that succeeded on a
\* destination holding an NA element, and stored a new payload elsewhere
C3_Witness ==
  /\ Succeeded /\ args.preservena /\ Dst.hasna /\ Src.nd >= 1
  /\ \E idx \in Idx(Dst.dims) : DstWasNA(idx)
  /\ \E idx \in Idx(Dst.dims) :
       /\ ~DstWasNA(idx)
       /\ heap[ElemAddr(Dst, idx)] # heap0[ElemAddr(Dst, idx)]

(***************************************************************************)
(* C4                                                                      *)
(***************************************************************************)
\* a source of shape (1,n) or (n) assigned into an (m,n) destination of
\* another buffer, m > 1, in a call that passes every check
BroadcastRowCase ==
  /\ Dst.nd = 2 /\ Dst.dims[1] > 1
  /\ \/ Src.nd = 2 /\ Src.dims[1] = 1 /\ Src.dims[2] = Dst.dims[2]
     \/ Src.nd = 1 /\ Src.dims[1] = Dst.dims[2]
  /\ Footprint(Dst) \cap Footprint(Src) = {}
  /\ GatesPass /\ NoFault /\ ShapesFit /\ ~WhereHoldsNA
  /\ Src.hasna => Dst.hasna

\* the elements the mode writes a payload to
PayloadSelected(idx) ==
  /\ WhereAt(idx)
  /\ ~(args.preservena /\ DstWasNA(idx))
  /\ ~(Dst.hasna /\ SrcWasNA(idx))

\* C4 as stated: a (1,n) or (n) source broadcasts into an (m,n) destination
\* in every mode, the preservena=1 modes included: the call succeeds and
\* every element the mode writes receives the value of the source row.
C4_BroadcastRow_AsClaimed ==
  (Done /\ BroadcastRowCase) =>
    /\ result = "success"
    /\ \A idx \in Idx(Dst.dims) :
         PayloadSelected(idx) =>
           heap[ElemAddr(Dst, idx)] =
             Cast(heap0[SrcElemAddr(idx)], Src.descr, Dst.descr)

(***************************************************************************)
(* C5                                                                      *)
(***************************************************************************)
\* a non-scalar source with an NA mask, a destination without one, in a
\* call that passes the earlier checks
SourceNACase ==
  /\ Src.nd >= 1 /\ Src.hasna /\ ~Dst.hasna
  /\ GatesPass /\ NoFault
  /\ HasWhere => Broadcastable(Src.dims, Wm.dims)

\* the source holds an NA at a position the where-mask selects
SrcNASelected ==
  LET shp == IF HasWhere THEN BroadcastShape(Src.dims, Wm.dims) ELSE Src.dims
      nas == BStrides(shp, Src.dims, Src.nastrides)
      wms == IF HasWhere THEN BStrides(shp, Wm.dims, Wm.strides) ELSE <<>>
  IN  \E idx \in Idx(shp) :
        /\ ~Exposed(heap0[Src.nadata + Dot(idx, nas)])
        /\ ~HasWhere \/ heap0[Wm.data + Dot(idx, wms)] # 0

C6_SelfAssign_AsClaimed ==
  RedundantCopy(Src, Dst) => written = {} /\ (Done => result = "success")

(***************************************************************************)
(* C7                                                                      *)
(***************************************************************************)
\* C7 as stated: a call with a non-NULL preservewhichna stores nothing and
\* fails, also when source and destination are the identical view.
C7_WhichNA_AsClaimed ==
  args.pwna => written = {} /\ (Done => result = "failure")

\* C7 amended: a call with a non-NULL preservewhichna and a non-scalar
\* source stores nothing and fails, unless source and destination are the
\* identical view: that call stores nothing and returns success.
C7_WhichNA ==
  (args.pwna /\ Src.nd >= 1) =>
    /\ written = {}
    /\ Done => (result = IF SelfAssignment THEN "success" ELSE "failure")

\* C7 witness: a call with preservewhichna given that passed the checks
\* before it and failed with NotImplemented
C7_Witness ==
  /\ Failed /\ args.pwna /\ Src.nd >= 1 /\ ~SelfAssignment
  /\ pyerr = "NotImplemented"

(***************************************************************************)
(* C8                                                                      *)
(***************************************************************************)
\* preservena=0, a non-scalar source with an NA mask, a destination with an
\* NA mask, in a call that passes every check
PropagateNACase ==
  /\ ~args.preservena /\ Src.nd >= 1 /\ Src.hasna /\ Dst.hasna
  /\ GatesPass /\ NoFault /\ ShapesFit /\ ~WhereHoldsNA

\* C8 as stated: the call succeeds; afterwards every selected destination
\* element has the NA flag its (broadcast) source element had, and where the
\* source element was exposed also the cast source payload.
C8_PropagateNA_AsClaimed ==
  (Done /\ PropagateNACase) =>
    /\ result = "success"
    /\ \A idx \in Idx(Dst.dims) :
         WhereAt(idx) =>
           /\ Exposed(heap[NaAddr(Dst, idx)]) = ~SrcWasNA(idx)
           /\ ~SrcWasNA(idx) =>
                heap[ElemAddr(Dst, idx)] =
                  Cast(heap0[SrcElemAddr(idx)], Src.descr, Dst.descr)

(***************************************************************************)
(* C9                                                                      *)
(***************************************************************************)
\* C9 as stated: a call whose where-mask holds an NA never stores to a
\* destination cell and fails.
C9_WhereNA_AsClaimed ==
  WhereHoldsNA => written \cap DstCells = {} /\ (Done => result = "failure")

\* C9 amended: a call with a non-scalar source whose where-mask holds an NA
\* never stores to a destination cell and fails, unless source and
\* destination are the identical view: that call stores nothing and returns
\* success.
C9_WhereNA ==
  (WhereHoldsNA /\ Src.nd >= 1) =>
    /\ written \cap DstCells = {}
    /\ Done => (result = IF SelfAssignment THEN "success" ELSE "failure")

\* C9 witness: a call that passed every earlier check and failed with
\* UnsupportedNA on the NA of its where-mask
C9_Witness ==
  /\ Failed /\ WhereHoldsNA /\ Src.nd >= 1 /\ ~SelfAssignment
  /\ GatesPass /\ NoFault /\ (Src.hasna => Dst.hasna)
  /\ pyerr = "UnsupportedNA"

(***************************************************************************)
(* C10                                                                     *)
(***************************************************************************)
RawKinds == {"maskna_buffer", "transferdata", "maskand_transferdata"}

\* C10: no resource is ever released when not held; whenever no raw loop is
\* running its scratch buffer and transfer data are all released; when the
\* call has returned, by whatever path, everything acquired (the temporary
\* copy included) has been released exactly once.
C10_ResourcesReleased ==
  /\ ~res.dbl
  /\ (stk # <<>> /\ Top.fn = "assign") => \A k \in RawKinds : res.held[k] = 0
  /\ Done => \A k \in ResKinds : res.held[k] = 0 /\ res.rel[k] = res.acq[k]

\* C10 witness: a call that returned after acquiring a temporary copy, a
\* scratch mask buffer, transfer data and mask-AND data
C10_Witness ==
  /\ Done
  /\ \A k \in ResKinds : res.acq[k] >= 1

(***************************************************************************)
(* C11                                                                     *)
(***************************************************************************)
CheckPcs == {"writeable", "casting", "whichna", "srcna"}

\* a call with a non-scalar source that is not a redundant self-assignment
ArrayCall == Src.nd >= 1 /\ ~RedundantCopy(Src, Dst)

CastAllowed == PyArray_CanCastTypeTo(Src.descr, Dst.descr, args.casting)

\* the source scan would find an NA to reject
ScanWouldReject ==
  /\ Src.hasna /\ ~Dst.hasna
  /\ HasWhere => Broadcastable(Src.dims, Wm.dims)
  /\ SrcNASelected

\* the error the checks report when taken in the order writability, casting
\* rule, preservewhichna, source scan; "none" when all four pass
EarliestFailure ==
  IF ~Dst.writeable THEN "ReadOnlyTarget"
  ELSE IF ~CastAllowed THEN "UnsafeCast"
  ELSE IF args.pwna THEN "NotImplemented"
  ELSE IF ScanWouldReject THEN "UnsupportedNA"
  ELSE "none"

\* C11: in a call with a non-scalar source that is not a redundant
\* self-assignment, (1) while a call of PyArray_AssignArray is at one of its
\* four checks nothing has been stored, no transfer function has been
\* obtained and, for the outermost call, no temporary exists; (2) a finished
\* call in which one of the four checks would fail has failed with the error
\* of the earliest of them in the order writability, casting rule,
\* preservewhichna, source-NA scan (the scan itself not failing for lack of
\* memory).
C11_CheckOrder ==
  ArrayCall =>
    /\ (stk # <<>> /\ Top.fn = "assign" /\ Top.pc \in CheckPcs) =>
         /\ written = {}
         /\ \A k \in RawKinds : res.acq[k] = 0
         /\ Len(stk) = 1 => res.acq["tmp"] = 0
    /\ (Done /\ EarliestFailure # "none"
             /\ (EarliestFailure = "UnsupportedNA" => NoFault)) =>
         result = "failure" /\ pyerr = EarliestFailure

\* C11 witness: a finished call in which all four checks would fail and
\* ReadOnlyTarget was reported
C11_Witness ==
  /\ Failed /\ ArrayCall
  /\ ~Dst.writeable /\ ~CastAllowed /\ args.pwna /\ ScanWouldReject
  /\ pyerr = "ReadOnlyTarget"

(***************************************************************************)
(* C12                                                                     *)
(***************************************************************************)
\* the running raw loop invokes its transfer callable in this step
TransferInvoked ==
  /\ IsRaw /\ Top.pc \in {"body", "chunk"}
  /\ Len(stk') = Len(stk)
  /\ Top'.calls > Top.calls

\* C12 as stated: once the transfer callable has reported a failure no later
\* chunk or outer-iteration step invokes the transfer callable again.
C12_AbortOnFailure_AsClaimed ==
  [][pyerr = "TransferFailure" => ~TransferInvoked]_vars

(***************************************************************************)
(* C13                                                                     *)
(***************************************************************************)
\* the call's case: a destination of rank 2 or more, or of rank 1 with a
\* stride of the sign opposite to the source's innermost stride, whose
\* cells are shared with the source
TemporaryCase ==
  /\ ArrayCall
  /\ \/ Dst.nd >= 2
     \/ Dst.nd = 1 /\ Dst.strides[1] * Src.strides[Src.nd] < 0
  /\ Footprint(Dst) \cap Footprint(Src) # {}

\* the addresses the running raw loop reads source values from in its
\* current inner run
RunReads ==
  {Top.src_data + i * Top.src_strides_it[1] : i \in 0..(Top.shape_it[1] - 1)}

\* the frames of the assignment into the temporary
CopyFrames == {k \in 2..Len(stk) : stk[k].fn = "assign"}

\* C13: in the temporary case no destination cell is written before the
\* source has been copied to a fresh temporary, every raw loop run for the
\* destination reads its values (payload or NA mask) from the temporary only, the assignment into
\* the temporary makes no temporary of its own, and after a successful call
\* without NA masks and without where-mask every destination element holds
\* the pre-call value of its broadcast source element.
C13_TemporaryCopy ==
  TemporaryCase =>
    /\ (written \cap DstCells # {}) =>
         /\ res.acq["tmp"] = 1
         /\ stk # <<>> => stk[1].copied_src /\ stk[1].src = "tmp"
    /\ (IsRaw /\ Len(stk) = 2 /\ stk[1].copied_src /\ Top.pc = "body") =>
         \A a \in RunReads : a \in Addrs /\ RegionOf(a) \in {"T", "Tna"}
    /\ res.acq["tmp"] <= 1
    /\ \A k \in CopyFrames :
         stk[k].pc \notin {"newlike", "allocmask", "copy", "copyret"}
    /\ (Succeeded /\ ~Dst.hasna /\ ~Src.hasna /\ ~HasWhere) => DstIsOldSrc

\* C13 witness: a successful unmasked call of the temporary case in which at
\* least one destination element had its source cell overwritten
C13_Witness ==
  /\ TemporaryCase /\ Succeeded
  /\ ~Dst.hasna /\ ~Src.hasna /\ ~HasWhere
  /\ Dst.nd >= 2
  /\ res.acq["tmp"] = 1
  /\ \E idx \in Idx(Dst.dims) :
       /\ SrcElemAddr(idx) \in written
       /\ heap[SrcElemAddr(idx)] # heap0[SrcElemAddr(idx)]

(***************************************************************************)
(* C14                                                                     *)
(***************************************************************************)
\* the call's case: a source of higher rank than the destination whose extra
\* leading extents are all 1 and whose remaining shape, like the where-mask's,
\* broadcasts to the destination
LeadingOnesCase ==
  /\ ArrayCall
  /\ Src.nd > Dst.nd
  /\ SrcStrip = Src.nd - Dst.nd
  /\ ShapesFit

\* C14 as stated: a source with extra leading extents of 1 is never refused
\* with ShapeMismatch, with or without NA masks on source and destination.
C14_LeadingOnes_AsClaimed ==
  (Done /\ LeadingOnesCase) => pyerr # "ShapeMismatch"

(***************************************************************************)
(* C15                                                                     *)
(***************************************************************************)
\* the chunk loop of raw_array_wheremasked_assign_array_preservena is about
\* to run a chunk
InChunk == IsRaw /\ Top.fn = "rawwmna" /\ Top.pc = "chunk"

\* the element index of the inner run the next chunk starts at
ChunkIndex == Top.shape_it[1] - Top.count

\* at the start of a chunk: elements remain, the chunk is within the buffer
\* capacity and within the rest of the run, the chunks before it were full,
\* and the four pointers stand at the same element index
ChunkAligned ==
  /\ Top.count \in 1..Top.shape_it[1]
  /\ buffered_count(Top) \in 1..NPY_ARRAY_ASSIGN_BUFFERSIZE
  /\ buffered_count(Top) <= Top.count
  /\ ChunkIndex % NPY_ARRAY_ASSIGN_BUFFERSIZE = 0
  /\ Top.dst_d = Top.dst_data + ChunkIndex * Top.dst_strides_it[1]
  /\ Top.src_d = Top.src_data + ChunkIndex * Top.src_strides_it[1]
  /\ Top.maskna_d = Top.maskna_data + ChunkIndex * Top.maskna_strides_it[1]
  /\ Top.wheremask_d =
       Top.wheremask_data + ChunkIndex * Top.wheremask_strides_it[1]

\* a chunk consumes exactly its own elements, and the loop is left exactly
\* when none remain
ChunkStep ==
  InChunk =>
    /\ Len(stk') = Len(stk)
    /\ Top'.count = Top.count - buffered_count(Top)
    /\ Top'.count < Top.count
    /\ Top'.pc = IF Top'.count > 0 THEN "chunk" ELSE "next"

\* C15: in every inner run of length L of the NA-preserving where-masked
\* loop each chunk has between 1 and NPY_ARRAY_ASSIGN_BUFFERSIZE elements,
\* starts with the destination, source, NA-mask and where-mask pointers at
\* the same element index, consumes exactly its elements, and the loop ends
\* when the chunk sizes add up to L: the remaining count strictly decreases
\* to 0, so every index 0..L-1 is combined and transferred exactly once.
C15_ChunkLoop ==
  /\ [](InChunk => ChunkAligned)
  /\ [][ChunkStep]_vars

\* C15 witness: the second chunk of an inner run longer than the buffer,
\* with a where-mask stride different from the destination's
C15_Witness ==
  /\ InChunk
  /\ Top.shape_it[1] > NPY_ARRAY_ASSIGN_BUFFERSIZE
  /\ ChunkIndex = NPY_ARRAY_ASSIGN_BUFFERSIZE
  /\ Top.wheremask_strides_it[1] # 0
  /\ Top.wheremask_d # Top.wheremask_data
  /\ written # {}

(***************************************************************************)
(* C16                                                                     *)
(***************************************************************************)
\* the call's case: preservena, no where-mask, NA masks on both arrays, the
\* same shape, no cell shared between the two arrays
MergeCase ==
  /\ ArrayCall
  /\ args.preservena /\ ~HasWhere
  /\ Dst.hasna /\ Src.hasna
  /\ Src.dims = Dst.dims
  /\ (Footprint(Dst) \cup NaFootprint(Dst))
       \cap (Footprint(Src) \cup NaFootprint(Src)) = {}

\* the element was exposed in both arrays before the call
BothExposed(idx) == ~DstWasNA(idx) /\ ~SrcWasNA(idx)

\* the destination's NA mask is the merge of the two masks of before the call
MaskMerged ==
  \A idx \in Idx(Dst.dims) :
    Exposed(heap[NaAddr(Dst, idx)]) <=> BothExposed(idx)

\* C16: in the merge case the destination's NA mask is merged before any
\* payload cell is written, and after a successful call a destination
\* element is exposed exactly when it and its source element were exposed
\* before, and its payload is the cast source value exactly at those
\* positions and unchanged elsewhere.
C16_MergeThenAssign ==
  MergeCase =>
    /\ (written \cap Footprint(Dst) # {}) => MaskMerged
    /\ Succeeded =>
         /\ MaskMerged
         /\ \A idx \in Idx(Dst.dims) :
              /\ heap[ElemAddr(Dst, idx)] =
                   IF BothExposed(idx)
                   THEN Cast(heap0[SrcElemAddr(idx)], Src.descr, Dst.descr)
                   ELSE heap0[ElemAddr(Dst, idx)]
              /\ ElemAddr(Dst, idx) \in written <=> BothExposed(idx)

\* C16 witness: a successful merge in which one element was NA only in the
\* source, one only in the destination, and one was exposed in both
C16_Witness ==
  /\ MergeCase /\ Succeeded
  /\ \E i, j, k \in Idx(Dst.dims) :
       /\ ~DstWasNA(i) /\ SrcWasNA(i)
       /\ DstWasNA(j) /\ ~SrcWasNA(j)
       /\ BothExposed(k)
       /\ heap[ElemAddr(Dst, k)] # heap0[ElemAddr(Dst, k)]

(***************************************************************************)
(* C17                                                                     *)
(***************************************************************************)
\* the failures of the checks made before the dispatch
EarlyFailures ==
  {"ReadOnlyTarget", "UnsafeCast", "NotImplemented", "UnsupportedNA",
   "ShapeMismatch"}

\* the call has failed, or is about to return failure, without having
\* completed the temporary copy of an overlapping source
TemporaryFailed ==
  /\ NeedsTemporary(Src, Dst)
  /\ Len(stk) = 1 /\ stk[1].pc = "fail" /\ ~stk[1].copied_src

\* payload and NA mask of the destination are as before the call and no
\* cell of them has been written
DstUntouched ==
  /\ written \cap DstCells = {}
  /\ \A a \in DstCells : heap[a] = heap0[a]

\* C17: a call with a non-scalar source that fails with ReadOnlyTarget,
\* UnsafeCast, NotImplemented, UnsupportedNA or ShapeMismatch, or fails
\* while the temporary copy of an overlapping source is being built, leaves
\* the destination's payload and NA mask as they were before the call, with
\* no cell of them written.
C17_EarlyFailuresLeaveDst ==
  ArrayCall =>
    /\ (Failed /\ pyerr \in EarlyFailures) => DstUntouched
    /\ TemporaryFailed => DstUntouched

\* C17 witness: a destination with an NA mask holding an NA, refused for a
\* where-mask that does not broadcast to it, after every earlier check passed
C17_Witness ==
  /\ ArrayCall /\ Failed /\ pyerr = "ShapeMismatch"
  /\ HasWhere /\ ~WhereBroadcast.ok /\ SrcBroadcast(Src.strides).ok
  /\ Dst.hasna /\ \E idx \in Idx(Dst.dims) : DstWasNA(idx)
  /\ DstUntouched

====
